---- MODULE Spec2Model ----
(***************************************************************************)
(* Model of src/main.rs of vulkan-tutorial-rs: the start-up pipeline of    *)
(* HelloTriangleApplication (create_instance .. create_swap_chain) and the *)
(* pure selection functions it is built from.                              *)
(*                                                                         *)
(* Option<T> is modelled as a sequence of length at most one: None is <<>> *)
(* and Some(x) is <<x>>.  A Result whose error carries no data the program *)
(* reads is modelled the same way (Err is None).  Rust indices are 0-based *)
(* and TLA+ sequences 1-based: element i of a Rust list is s[i + 1].       *)
(***************************************************************************)
EXTENDS Integers, Sequences, FiniteSets, TLC

VARIABLES
    pc,                     \* position of the running specification
    panic,                  \* None, or Some([in, msg]) once a panic unwound run()
    instance,               \* self.instance      (Some(..) once created)
    surface,                \* self.surface
    devices,                \* the instance's physical devices, in enumeration order
    physical_device_index,  \* self.physical_device_index
    device,                 \* self.device
    graphics_queue,         \* self.graphics_queue
    present_queue,          \* self.present_queue
    capabilities,           \* the Capabilities snapshot create_swap_chain negotiates from
    surface_format,         \* create_swap_chain's local surface_format
    present_mode,           \* create_swap_chain's local present_mode
    extent,                 \* create_swap_chain's local extent
    image_count,            \* create_swap_chain's local image_count
    sharing,                \* create_swap_chain's local sharing
    swapchain_new_called,   \* Swapchain::new has been called (the creation attempt)
    swap_chain,             \* self.swap_chain with its images, format and extent
    queue_families,         \* the family list given to find_queue_families
    indices                 \* the QueueFamilyIndices find_queue_families returned

vars == <<pc, panic, instance, surface, devices, physical_device_index, device,
          graphics_queue, present_queue, capabilities, surface_format,
          present_mode, extent, image_count, sharing, swapchain_new_called,
          swap_chain, queue_families, indices>>

----------------------------------------------------------------------------
(* Option *)

None == <<>>
Some(x) == <<x>>
unwrap(o) == o[1]

----------------------------------------------------------------------------
(* Program constants *)

WIDTH == 800
HEIGHT == 600

(* device_extensions(): the required device extensions.                    *)
device_extensions == {"khr_swapchain"}

----------------------------------------------------------------------------
(* Bounds of the model *)

MaxDevices == 2
MaxDeviceFamilies == 1
MaxFamilies == 6
MaxFormats == 2
MaxImageCount == 4
MaxExtentSteps == 4
ExtentStep == 300

SeqsUpTo(S, n) == UNION {[1..k -> S] : k \in 0..n}

----------------------------------------------------------------------------
(* QueueFamilyIndices *)

QueueFamilyIndices_new == [graphics_family |-> -1, present_family |-> -1]

is_complete(ind) == ind.graphics_family >= 0 /\ ind.present_family >= 0

(* A queue family, as far as the program reads it: supports_graphics().     *)
QueueFamily == [supports_graphics : BOOLEAN]

(* One iteration of the for loop of find_queue_families over family i, and *)
(* the rest of the loop unless the break is taken.                         *)
RECURSIVE scan_queue_families(_, _, _)
scan_queue_families(families, i, ind) ==
    IF i >= Len(families) THEN ind
    ELSE LET found == IF families[i + 1].supports_graphics
                      THEN [graphics_family |-> i, present_family |-> i]
                      ELSE ind
         IN  IF is_complete(found) THEN found
             ELSE scan_queue_families(families, i + 1, found)

RECURSIVE scan_queue_families_no_break(_, _, _)
scan_queue_families_no_break(families, i, ind) ==
    IF i >= Len(families) THEN ind
    ELSE LET found == IF families[i + 1].supports_graphics
                      THEN [graphics_family |-> i, present_family |-> i]
                      ELSE ind
         IN  scan_queue_families_no_break(families, i + 1, found)

find_queue_families_last(families) ==
    scan_queue_families_no_break(families, 0, QueueFamilyIndices_new)

find_queue_families(families) ==
    scan_queue_families(families, 0, QueueFamilyIndices_new)

----------------------------------------------------------------------------
(* Swapchain negotiation: the pure choices of create_swap_chain *)

Formats == {"B8G8R8A8Unorm", "R8G8B8A8Unorm"}
ColorSpaces == {"SrgbNonLinear", "ExtendedSrgbLinear"}
FormatPairs == Formats \X ColorSpaces
PreferredPair == <<"B8G8R8A8Unorm", "SrgbNonLinear">>

(* SupportedPresentModes: one flag per mode.                               *)
SupportedPresentModes ==
    [immediate : BOOLEAN, mailbox : BOOLEAN, fifo : BOOLEAN, relaxed : BOOLEAN]

(* present_modes.iter().next().is_some(): some mode is offered.            *)
present_modes_any(modes) ==
    modes.immediate \/ modes.mailbox \/ modes.fifo \/ modes.relaxed

(* Position (1-based) of the first preferred pair of the list, 0 if none.  *)
RECURSIVE find_preferred(_, _)
find_preferred(available_formats, k) ==
    IF k > Len(available_formats) THEN 0
    ELSE IF available_formats[k][1] = "B8G8R8A8Unorm"
            /\ available_formats[k][2] = "SrgbNonLinear" THEN k
    ELSE find_preferred(available_formats, k + 1)

choose_swap_surface_format_first(available_formats) ==
    IF Len(available_formats) = 0 THEN None ELSE Some(available_formats[1])

(* None stands for the panic of available_formats[0] on an empty list.     *)
choose_swap_surface_format(available_formats) ==
    LET k == find_preferred(available_formats, 1)
    IN  IF k > 0 THEN Some(available_formats[k])
        ELSE IF Len(available_formats) = 0 THEN None
        ELSE Some(available_formats[1])

choose_swap_present_mode_immediate_first(available_present_modes) ==
    IF available_present_modes.immediate THEN "Immediate"
    ELSE IF available_present_modes.mailbox THEN "Mailbox"
    ELSE "Fifo"

choose_swap_present_mode(available_present_modes) ==
    IF available_present_modes.mailbox THEN "Mailbox"
    ELSE IF available_present_modes.immediate THEN "Immediate"
    ELSE "Fifo"

u32_min(a, b) == IF a <= b THEN a ELSE b
u32_max(a, b) == IF a >= b THEN a ELSE b

choose_swap_extent_unclamped(caps) ==
    IF caps.current_extent # None THEN unwrap(caps.current_extent)
    ELSE <<WIDTH, HEIGHT>>

choose_swap_extent(caps) ==
    IF caps.current_extent # None THEN unwrap(caps.current_extent)
    ELSE <<u32_max(caps.min_image_extent[1],
                   u32_min(caps.max_image_extent[1], WIDTH)),
           u32_max(caps.min_image_extent[2],
                   u32_min(caps.max_image_extent[2], HEIGHT))>>

choose_image_count_unclamped(caps) == caps.min_image_count + 1

(* The image_count of create_swap_chain.  The counts of the model are far  *)
(* below u32::MAX, so min_image_count + 1 does not wrap.                   *)
choose_image_count(caps) ==
    LET count == caps.min_image_count + 1
    IN  IF caps.max_image_count # None /\ count > unwrap(caps.max_image_count)
        THEN unwrap(caps.max_image_count)
        ELSE count

----------------------------------------------------------------------------
(* The driver's answers: capability snapshots and physical devices *)

Extents == {<<w * ExtentStep, h * ExtentStep>> :
                w \in 1..MaxExtentSteps, h \in 1..MaxExtentSteps}

extent_within(e, lo, hi) ==
    lo[1] <= e[1] /\ e[1] <= hi[1] /\ lo[2] <= e[2] /\ e[2] <= hi[2]

(* min/max image count as the driver reports them: at least one image, and *)
(* a bounded maximum is never below the minimum.                           *)
ImageCounts ==
    {c \in (1..MaxImageCount) \X ({None} \cup {Some(n) : n \in 1..MaxImageCount}) :
        c[2] = None \/ unwrap(c[2]) >= c[1]}

(* Extents as the driver reports them: min <= max, and a defined current   *)
(* extent lies between them.                                               *)
ExtentSnapshots ==
    {e \in [current_extent : {None} \cup {Some(x) : x \in Extents},
            min_image_extent : Extents, max_image_extent : Extents] :
        /\ extent_within(e.min_image_extent, e.min_image_extent, e.max_image_extent)
        /\ e.current_extent # None =>
              extent_within(unwrap(e.current_extent),
                            e.min_image_extent, e.max_image_extent)}

Geometries ==
    {[min_image_count |-> c[1], max_image_count |-> c[2],
      current_extent |-> e.current_extent,
      min_image_extent |-> e.min_image_extent,
      max_image_extent |-> e.max_image_extent] :
        c \in ImageCounts, e \in ExtentSnapshots}

SurfaceSupports ==
    [supported_formats : SeqsUpTo(FormatPairs, MaxFormats),
     present_modes : SupportedPresentModes]

NoPresentModes ==
    [immediate |-> FALSE, mailbox |-> FALSE, fifo |-> FALSE, relaxed |-> FALSE]
FifoOnly ==
    [immediate |-> FALSE, mailbox |-> FALSE, fifo |-> TRUE, relaxed |-> FALSE]

(* A surface whose size the window system leaves to the application, and   *)
(* one whose size it dictates.                                             *)
FreeGeometry ==
    [min_image_count |-> 2, max_image_count |-> None, current_extent |-> None,
     min_image_extent |-> <<ExtentStep, ExtentStep>>,
     max_image_extent |-> <<MaxExtentSteps * ExtentStep, MaxExtentSteps * ExtentStep>>]
FixedGeometry ==
    [min_image_count |-> 1, max_image_count |-> Some(1),
     current_extent |-> Some(<<ExtentStep, ExtentStep>>),
     min_image_extent |-> <<ExtentStep, ExtentStep>>,
     max_image_extent |-> <<ExtentStep, ExtentStep>>]
WindowGeometries == {FreeGeometry, FixedGeometry}

DefaultSupport ==
    [supported_formats |-> <<PreferredPair>>, present_modes |-> FifoOnly]

(* The Capabilities of a surface: what the device supports on it, and the  *)
(* surface's present geometry.                                             *)
Capabilities(support, geometry) ==
    [supported_formats |-> support.supported_formats,
     present_modes |-> support.present_modes,
     min_image_count |-> geometry.min_image_count,
     max_image_count |-> geometry.max_image_count,
     current_extent |-> geometry.current_extent,
     min_image_extent |-> geometry.min_image_extent,
     max_image_extent |-> geometry.max_image_extent]

(* The snapshots the negotiation is run on: every format/mode support on a *)
(* default geometry, and every geometry with a default support (the four   *)
(* choices read disjoint fields).                                          *)
NegotiationSnapshots ==
    {Capabilities(s, FreeGeometry) : s \in SurfaceSupports}
        \cup {Capabilities(DefaultSupport, g) : g \in Geometries}

(* A physical device as the program reads it: its queue families, its      *)
(* supported device extensions, and what Surface::capabilities answers for *)
(* it (None: the query returns Err).                                       *)
DeviceSurfaceSupports ==
    [supported_formats : {<<>>, <<PreferredPair>>},
     present_modes : {NoPresentModes, FifoOnly}]

PhysicalDevices ==
    [queue_families : SeqsUpTo(QueueFamily, MaxDeviceFamilies),
     supported_extensions : SUBSET device_extensions,
     surface_support : {None} \cup {Some(s) : s \in DeviceSurfaceSupports}]

----------------------------------------------------------------------------
(* Physical device selection *)

check_device_extension_support(d) ==
    (d.supported_extensions \cap device_extensions) = device_extensions

(* Surface::capabilities(device): Some(support) or None for Err; the       *)
(* expect of query_swap_chain_support panics on None.                      *)
query_swap_chain_support(d) == d.surface_support

is_device_suitable_ignoring_extensions(d) ==
    LET ind == find_queue_families(d.queue_families)
        queried == query_swap_chain_support(d)
    IN  IF queried = None THEN None
        ELSE Some(/\ is_complete(ind)
                  /\ unwrap(queried).supported_formats # <<>>
                  /\ present_modes_any(unwrap(queried).present_modes))

is_device_suitable_formats_only(d) ==
    LET ind == find_queue_families(d.queue_families)
        extensions_supported == check_device_extension_support(d)
        queried == IF extensions_supported THEN query_swap_chain_support(d) ELSE None
    IN  IF extensions_supported /\ queried = None THEN None
        ELSE Some(/\ is_complete(ind)
                  /\ extensions_supported
                  /\ unwrap(queried).supported_formats # <<>>)

(* Some(b): is_device_suitable returns b; None: it panics in               *)
(* query_swap_chain_support ("failed to get surface capabilities").        *)
is_device_suitable(d) ==
    LET ind == find_queue_families(d.queue_families)
        extensions_supported == check_device_extension_support(d)
        queried == IF extensions_supported THEN query_swap_chain_support(d) ELSE None
    IN  IF extensions_supported /\ queried = None THEN None
        ELSE LET swap_chain_adequate ==
                     IF extensions_supported
                     THEN /\ unwrap(queried).supported_formats # <<>>
                          /\ present_modes_any(unwrap(queried).present_modes)
                     ELSE FALSE
             IN  Some(is_complete(ind) /\ extensions_supported /\ swap_chain_adequate)

(* Iterator::position over the enumeration from device i on: the index of  *)
(* the first device the predicate accepts ("some"), "none" when the        *)
(* enumeration ends, "panic" when the predicate panics first.              *)
RECURSIVE position_from(_, _)
position_from(devs, i) ==
    IF i >= Len(devs) THEN [kind |-> "none", index |-> 0]
    ELSE LET suitable == is_device_suitable(devs[i + 1])
         IN  IF suitable = None THEN [kind |-> "panic", index |-> i]
             ELSE IF unwrap(suitable) THEN [kind |-> "some", index |-> i]
             ELSE position_from(devs, i + 1)

RECURSIVE position_last_from(_, _, _)
position_last_from(devs, i, best) ==
    IF i >= Len(devs) THEN best
    ELSE LET suitable == is_device_suitable(devs[i + 1])
         IN  IF suitable = None THEN [kind |-> "panic", index |-> i]
             ELSE IF unwrap(suitable)
                  THEN position_last_from(devs, i + 1, [kind |-> "some", index |-> i])
             ELSE position_last_from(devs, i + 1, best)

position_last(devs) == position_last_from(devs, 0, [kind |-> "none", index |-> 0])

position(devs) == position_from(devs, 0)

pick_failure_message_by_cause(devs) ==
    IF Len(devs) = 0 THEN "failed to find GPUs with Vulkan support!"
    ELSE "failed to find a suitable GPU!"

(* The message of the expect on position's None.                           *)
pick_failure_message(devs) == "failed to find a suitable GPU!"

----------------------------------------------------------------------------
(* Logical device and queues *)

(* The orders in which a HashSet of families can be iterated.              *)
Orderings(S) ==
    {o \in [1..Cardinality(S) -> S] : \A a, b \in 1..Cardinality(S) : o[a] = o[b] => a = b}

(* Iterator::find on the queue iterator: the first queue of the family, or *)
(* None; the iterator is left after the queue returned, or exhausted.      *)
RECURSIVE iterator_find(_, _)
iterator_find(queues, family) ==
    IF queues = <<>> THEN [found |-> None, rest |-> <<>>]
    ELSE IF Head(queues).family = family
         THEN [found |-> Some(Head(queues)), rest |-> Tail(queues)]
    ELSE iterator_find(Tail(queues), family)

(* The two finds of create_logical_device, made in turn on one iterator.   *)
resolve_queues(queues, ind) ==
    LET g == iterator_find(queues, ind.graphics_family)
        p == iterator_find(g.rest, ind.present_family)
    IN  [graphics_queue |-> g.found, present_queue |-> p.found]

----------------------------------------------------------------------------
(* The start-up pipeline: run() *)

Panics(stage, msg) ==
    /\ pc' = "panicked"
    /\ panic' = Some([in |-> stage, msg |-> msg])

negotiationVars ==
    <<capabilities, surface_format, present_mode, extent, image_count, sharing,
      swapchain_new_called, swap_chain>>
resolverVars == <<queue_families, indices>>
deviceVars == <<device, graphics_queue, present_queue>>

Init ==
    /\ pc = "init_window"
    /\ panic = None
    /\ instance = None
    /\ surface = None
    /\ devices = <<>>
    /\ physical_device_index = 0
    /\ device = None
    /\ graphics_queue = None
    /\ present_queue = None
    /\ capabilities = None
    /\ surface_format = None
    /\ present_mode = None
    /\ extent = None
    /\ image_count = None
    /\ sharing = None
    /\ swapchain_new_called = FALSE
    /\ swap_chain = None
    /\ queue_families = <<>>
    /\ indices = QueueFamilyIndices_new

(* init_window builds a WindowBuilder and drops it.                        *)
InitWindow ==
    /\ pc = "init_window"
    /\ pc' = "create_instance"
    /\ UNCHANGED <<panic, instance, surface, devices, physical_device_index,
                   deviceVars, negotiationVars, resolverVars>>

CreateInstance ==
    /\ pc = "create_instance"
    /\ \E enable_validation_layers \in BOOLEAN, layers_supported \in BOOLEAN,
          core_extensions \in BOOLEAN, created \in BOOLEAN :
          IF enable_validation_layers /\ ~layers_supported
          THEN /\ Panics("create_instance",
                         "validation layers requested, but not available!")
               /\ UNCHANGED instance
          ELSE IF ~core_extensions
          THEN /\ Panics("create_instance", "failed to retrieve supported extensions")
               /\ UNCHANGED instance
          ELSE IF ~created
          THEN /\ Panics("create_instance", "failed to create Vulkan instance")
               /\ UNCHANGED instance
          ELSE /\ instance' = Some("Instance")
               /\ pc' = "setup_debug_callback"
               /\ UNCHANGED panic
    /\ UNCHANGED <<surface, devices, physical_device_index, deviceVars,
                   negotiationVars, resolverVars>>

(* setup_debug_callback registers the diagnostic sink; no later stage      *)
(* reads self.debug_callback, which is not part of the state.              *)
SetupDebugCallback ==
    /\ pc = "setup_debug_callback"
    /\ pc' = "create_surface"
    /\ UNCHANGED <<panic, instance, surface, devices, physical_device_index,
                   deviceVars, negotiationVars, resolverVars>>

CreateSurface ==
    /\ pc = "create_surface"
    /\ \E built \in BOOLEAN :
          IF instance = None
          THEN /\ Panics("create_surface", "called Option::unwrap() on a None value")
               /\ UNCHANGED surface
          ELSE IF ~built
          THEN /\ Panics("create_surface", "failed to create window surface!")
               /\ UNCHANGED surface
          ELSE /\ surface' = Some("Surface")
               /\ pc' = "pick_physical_device"
               /\ UNCHANGED panic
    /\ UNCHANGED <<instance, devices, physical_device_index, deviceVars,
                   negotiationVars, resolverVars>>

(* PhysicalDevice::enumerate yields the instance's devices; the list is    *)
(* recorded as it is first read.                                           *)
PickPhysicalDevice ==
    /\ pc = "pick_physical_device"
    /\ \E enumerated \in SeqsUpTo(PhysicalDevices, MaxDevices) :
          /\ devices' = enumerated
          /\ LET found == position(enumerated)
             IN  IF found.kind = "panic"
                 THEN /\ Panics("pick_physical_device",
                                "failed to get surface capabilities")
                      /\ UNCHANGED physical_device_index
                 ELSE IF found.kind = "none"
                 THEN /\ Panics("pick_physical_device", pick_failure_message(enumerated))
                      /\ UNCHANGED physical_device_index
                 ELSE /\ physical_device_index' = found.index
                      /\ pc' = "create_logical_device"
                      /\ UNCHANGED panic
    /\ UNCHANGED <<instance, surface, deviceVars, negotiationVars, resolverVars>>

CreateLogicalDevice ==
    /\ pc = "create_logical_device"
    /\ IF physical_device_index >= Len(devices)
       THEN /\ Panics("create_logical_device",
                      "called Option::unwrap() on a None value")
            /\ UNCHANGED deviceVars
       ELSE LET physical_device == devices[physical_device_index + 1]
                ind == find_queue_families(physical_device.queue_families)
                unique_queue_families == {ind.graphics_family, ind.present_family}
            IN  IF \E i \in unique_queue_families :
                       i < 0 \/ i >= Len(physical_device.queue_families)
                THEN /\ Panics("create_logical_device",
                               "called Option::unwrap() on a None value")
                     /\ UNCHANGED deviceVars
                ELSE \E created \in BOOLEAN, order \in Orderings(unique_queue_families) :
                        IF ~created
                        THEN /\ Panics("create_logical_device",
                                       "failed to create logical device!")
                             /\ UNCHANGED deviceVars
                        ELSE LET queues == [k \in 1..Len(order) |-> [family |-> order[k]]]
                                 resolved == resolve_queues(queues, ind)
                             IN  /\ device' = Some([physical_device |-> physical_device_index,
                                                    queue_families |-> unique_queue_families])
                                 /\ graphics_queue' = resolved.graphics_queue
                                 /\ present_queue' = resolved.present_queue
                                 /\ pc' = "create_swap_chain"
                                 /\ UNCHANGED panic
    /\ UNCHANGED <<instance, surface, devices, physical_device_index,
                   negotiationVars, resolverVars>>

CreateSwapChain ==
    /\ pc = "create_swap_chain"
    /\ \E geometry \in WindowGeometries, queried \in BOOLEAN, created \in BOOLEAN :
          LET physical_device == devices[physical_device_index + 1]
              support == query_swap_chain_support(physical_device)
          IN  IF ~queried \/ support = None
              THEN /\ Panics("create_swap_chain", "failed to get surface capabilities")
                   /\ UNCHANGED negotiationVars
              ELSE LET caps == Capabilities(unwrap(support), geometry)
                       format == choose_swap_surface_format(caps.supported_formats)
                       ind == find_queue_families(physical_device.queue_families)
                   IN  IF format = None
                       THEN /\ Panics("create_swap_chain", "index out of bounds")
                            /\ capabilities' = Some(caps)
                            /\ UNCHANGED <<surface_format, present_mode, extent,
                                           image_count, sharing, swapchain_new_called,
                                           swap_chain>>
                       ELSE IF \/ graphics_queue = None
                               \/ (ind.graphics_family # ind.present_family
                                       /\ present_queue = None)
                       THEN /\ Panics("create_swap_chain",
                                      "called Option::unwrap() on a None value")
                            /\ capabilities' = Some(caps)
                            /\ surface_format' = format
                            /\ present_mode' = Some(choose_swap_present_mode(caps.present_modes))
                            /\ extent' = Some(choose_swap_extent(caps))
                            /\ image_count' = Some(choose_image_count(caps))
                            /\ UNCHANGED <<sharing, swapchain_new_called, swap_chain>>
                       ELSE /\ capabilities' = Some(caps)
                            /\ surface_format' = format
                            /\ present_mode' = Some(choose_swap_present_mode(caps.present_modes))
                            /\ extent' = Some(choose_swap_extent(caps))
                            /\ image_count' = Some(choose_image_count(caps))
                            /\ sharing' = Some(IF ind.graphics_family # ind.present_family
                                               THEN {unwrap(graphics_queue), unwrap(present_queue)}
                                               ELSE {unwrap(graphics_queue)})
                            /\ swapchain_new_called' = TRUE
                            /\ IF created
                               THEN /\ swap_chain' =
                                          Some([image_format |-> unwrap(format)[1],
                                                extent |-> choose_swap_extent(caps)])
                                    /\ pc' = "main_loop"
                                    /\ UNCHANGED panic
                               ELSE /\ Panics("create_swap_chain",
                                              "failed to create swap chain!")
                                    /\ UNCHANGED swap_chain
    /\ UNCHANGED <<instance, surface, devices, physical_device_index, deviceVars,
                   resolverVars>>

MainLoop ==
    /\ pc = "main_loop"
    /\ pc' = "cleanup"
    /\ UNCHANGED <<panic, instance, surface, devices, physical_device_index,
                   deviceVars, negotiationVars, resolverVars>>

Cleanup ==
    /\ pc = "cleanup"
    /\ pc' = "done"
    /\ UNCHANGED <<panic, instance, surface, devices, physical_device_index,
                   deviceVars, negotiationVars, resolverVars>>

Next ==
    \/ InitWindow
    \/ CreateInstance
    \/ SetupDebugCallback
    \/ CreateSurface
    \/ PickPhysicalDevice
    \/ CreateLogicalDevice
    \/ CreateSwapChain
    \/ MainLoop
    \/ Cleanup

Spec == Init /\ [][Next]_vars

----------------------------------------------------------------------------
(* The negotiation of create_swap_chain, one choice at a time, on every    *)
(* snapshot of NegotiationSnapshots.                                       *)

pipelineVars ==
    <<instance, surface, devices, physical_device_index, deviceVars>>

InitNegotiate ==
    /\ pc = "choose_swap_surface_format"
    /\ capabilities \in {Some(c) : c \in NegotiationSnapshots}
    /\ panic = None
    /\ instance = None
    /\ surface = None
    /\ devices = <<>>
    /\ physical_device_index = 0
    /\ device = None
    /\ graphics_queue = None
    /\ present_queue = None
    /\ surface_format = None
    /\ present_mode = None
    /\ extent = None
    /\ image_count = None
    /\ sharing = None
    /\ swapchain_new_called = FALSE
    /\ swap_chain = None
    /\ queue_families = <<>>
    /\ indices = QueueFamilyIndices_new

ChooseSwapSurfaceFormat ==
    /\ pc = "choose_swap_surface_format"
    /\ LET format == choose_swap_surface_format(unwrap(capabilities).supported_formats)
       IN  IF format = None
           THEN /\ Panics("choose_swap_surface_format", "index out of bounds")
                /\ UNCHANGED surface_format
           ELSE /\ surface_format' = format
                /\ pc' = "choose_swap_present_mode"
                /\ UNCHANGED panic
    /\ UNCHANGED <<capabilities, present_mode, extent, image_count, sharing,
                   swapchain_new_called, swap_chain, pipelineVars, resolverVars>>

ChooseSwapPresentMode ==
    /\ pc = "choose_swap_present_mode"
    /\ present_mode' = Some(choose_swap_present_mode(unwrap(capabilities).present_modes))
    /\ pc' = "choose_swap_extent"
    /\ UNCHANGED <<panic, capabilities, surface_format, extent, image_count, sharing,
                   swapchain_new_called, swap_chain, pipelineVars, resolverVars>>

ChooseSwapExtent ==
    /\ pc = "choose_swap_extent"
    /\ extent' = Some(choose_swap_extent(unwrap(capabilities)))
    /\ pc' = "image_count"
    /\ UNCHANGED <<panic, capabilities, surface_format, present_mode, image_count,
                   sharing, swapchain_new_called, swap_chain, pipelineVars,
                   resolverVars>>

ChooseImageCount ==
    /\ pc = "image_count"
    /\ image_count' = Some(choose_image_count(unwrap(capabilities)))
    /\ pc' = "negotiated"
    /\ UNCHANGED <<panic, capabilities, surface_format, present_mode, extent,
                   sharing, swapchain_new_called, swap_chain, pipelineVars,
                   resolverVars>>

NextNegotiate ==
    \/ ChooseSwapSurfaceFormat
    \/ ChooseSwapPresentMode
    \/ ChooseSwapExtent
    \/ ChooseImageCount

SpecNegotiate == InitNegotiate /\ [][NextNegotiate]_vars

----------------------------------------------------------------------------
(* find_queue_families on every family list of at most MaxFamilies.        *)

InitFamilies ==
    /\ pc = "find_queue_families"
    /\ queue_families \in SeqsUpTo(QueueFamily, MaxFamilies)
    /\ indices = QueueFamilyIndices_new
    /\ panic = None
    /\ instance = None
    /\ surface = None
    /\ devices = <<>>
    /\ physical_device_index = 0
    /\ device = None
    /\ graphics_queue = None
    /\ present_queue = None
    /\ capabilities = None
    /\ surface_format = None
    /\ present_mode = None
    /\ extent = None
    /\ image_count = None
    /\ sharing = None
    /\ swapchain_new_called = FALSE
    /\ swap_chain = None

FindQueueFamilies ==
    /\ pc = "find_queue_families"
    /\ indices' = find_queue_families(queue_families)
    /\ pc' = "resolved"
    /\ UNCHANGED <<panic, queue_families, pipelineVars, negotiationVars>>

NextFamilies == FindQueueFamilies

SpecFamilies == InitFamilies /\ [][NextFamilies]_vars

----------------------------------------------------------------------------
(* What the properties speak of, stated from the device data alone *)

GraphicsFamilies(families) ==
    {i \in 0..(Len(families) - 1) : families[i + 1].supports_graphics}

Lowest(S) == CHOOSE i \in S : \A j \in S : i <= j

OffersSomeMode(modes) == \E m \in DOMAIN modes : modes[m]

(* The three suitability conditions on a device.                           *)
FullySuitable(d) ==
    /\ GraphicsFamilies(d.queue_families) # {}
    /\ "khr_swapchain" \in d.supported_extensions
    /\ d.surface_support # None
    /\ unwrap(d.surface_support).supported_formats # <<>>
    /\ OffersSomeMode(unwrap(d.surface_support).present_modes)

(* The capability query on the device is made and returns Err.             *)
QueryFails(d) ==
    "khr_swapchain" \in d.supported_extensions /\ d.surface_support = None

SuitableIndices == {i \in 0..(Len(devices) - 1) : FullySuitable(devices[i + 1])}

PickFailed == pc = "panicked" /\ unwrap(panic).in = "pick_physical_device"

(* pick_physical_device has run, to its end or to a panic.                 *)
PickRan ==
    \/ pc \in {"create_logical_device", "create_swap_chain", "main_loop",
               "cleanup", "done"}
    \/ pc = "panicked" /\ unwrap(panic).in \in
           {"pick_physical_device", "create_logical_device", "create_swap_chain"}

NothingCreatedAfterPick ==
    /\ physical_device_index = 0
    /\ device = None
    /\ graphics_queue = None
    /\ present_queue = None
    /\ swap_chain = None
    /\ ~swapchain_new_called

Clamp(v, lo, hi) == IF v < lo THEN lo ELSE IF v > hi THEN hi ELSE v

Range(seq) == {seq[k] : k \in 1..Len(seq)}

----------------------------------------------------------------------------
(* C1 *)

(* C1 as stated: whenever the enumerated list holds a device meeting the   *)
(* three suitability conditions, pick_physical_device stores the index of  *)
(* the first such device.  Refuted by a list whose earlier device supports *)
(* the extension but fails the capability query.                           *)
C1_FirstSuitableAlwaysStored ==
    (PickRan /\ SuitableIndices # {}) =>
        (~PickFailed /\ physical_device_index = Lowest(SuitableIndices))

(* C1 amended: with a suitable device in the list, pick_physical_device    *)
(* stores the index of the first such device provided the capability query *)
(* succeeds on every extension-supporting device enumerated before it;     *)
(* when that query fails on an earlier device, startup ends with "failed   *)
(* to get surface capabilities" and no index is stored.                    *)
C1_FirstSuitableStored ==
    (PickRan /\ SuitableIndices # {}) =>
        IF \A j \in 0..(Lowest(SuitableIndices) - 1) : ~QueryFails(devices[j + 1])
        THEN ~PickFailed /\ physical_device_index = Lowest(SuitableIndices)
        ELSE /\ PickFailed
             /\ unwrap(panic).msg = "failed to get surface capabilities"
             /\ physical_device_index = 0

(* A list of two devices whose first is unsuitable and second suitable,    *)
(* after pick_physical_device stored index 1.                              *)
C1_Witness ==
    /\ pc = "create_logical_device"
    /\ Len(devices) = 2
    /\ ~FullySuitable(devices[1])
    /\ FullySuitable(devices[2])
    /\ physical_device_index = 1

----------------------------------------------------------------------------
(* C2 *)

(* C2 as stated: when no device meets the three conditions, startup ends   *)
(* in pick_physical_device with the no-suitable-device failure, nothing is *)
(* selected and no logical device or swapchain is created or attempted.    *)
(* Refuted by a list whose extension-supporting device fails the           *)
(* capability query: the failure reported is that of the query.            *)
C2_NoSuitableDeviceFailure ==
    (PickRan /\ SuitableIndices = {}) =>
        /\ PickFailed
        /\ unwrap(panic).msg = "failed to find a suitable GPU!"
        /\ NothingCreatedAfterPick

(* C2 amended: when no device meets the three conditions, startup ends in  *)
(* pick_physical_device, with the no-suitable-device failure unless the    *)
(* capability query fails on an extension-supporting device, and then with *)
(* "failed to get surface capabilities"; in both cases nothing is selected *)
(* and neither the logical device nor the swapchain is attempted.          *)
C2_NoSuitableDeviceEndsStartup ==
    (PickRan /\ SuitableIndices = {}) =>
        /\ PickFailed
        /\ unwrap(panic).msg =
              IF \E k \in 1..Len(devices) : QueryFails(devices[k])
              THEN "failed to get surface capabilities"
              ELSE "failed to find a suitable GPU!"
        /\ NothingCreatedAfterPick

(* Two devices with a graphics family and an adequate surface, both        *)
(* lacking the swapchain extension: selection failed.                      *)
C2_Witness ==
    /\ PickFailed
    /\ Len(devices) = 2
    /\ \A k \in 1..2 :
          /\ devices[k].supported_extensions = {}
          /\ GraphicsFamilies(devices[k].queue_families) # {}
          /\ devices[k].surface_support = Some(DefaultSupport)
    /\ unwrap(panic).msg = "failed to find a suitable GPU!"

----------------------------------------------------------------------------
(* C3 *)

(* C3 as stated: once create_logical_device has succeeded, graphics_queue  *)
(* and present_queue both hold a queue, of the resolved graphics family    *)
(* and present family respectively (the same queue when they coincide).    *)
C3_BothQueuesResolved ==
    device # None =>
        LET families == devices[physical_device_index + 1].queue_families
        IN  /\ graphics_queue # None
            /\ present_queue # None
            /\ unwrap(graphics_queue).family = Lowest(GraphicsFamilies(families))
            /\ unwrap(present_queue).family = Lowest(GraphicsFamilies(families))

----------------------------------------------------------------------------
(* C4 *)

(* C4: the extent chosen by choose_swap_extent lies component-wise within  *)
(* [min_image_extent, max_image_extent]; it is current_extent when that is *)
(* defined, and otherwise (WIDTH, HEIGHT) clamped into the bounds.         *)
C4_ExtentWithinBounds ==
    extent # None =>
        LET c == unwrap(capabilities)
            e == unwrap(extent)
        IN  /\ c.min_image_extent[1] <= e[1] /\ e[1] <= c.max_image_extent[1]
            /\ c.min_image_extent[2] <= e[2] /\ e[2] <= c.max_image_extent[2]
            /\ c.current_extent # None => e = unwrap(c.current_extent)
            /\ c.current_extent = None =>
                  e = <<Clamp(WIDTH, c.min_image_extent[1], c.max_image_extent[1]),
                        Clamp(HEIGHT, c.min_image_extent[2], c.max_image_extent[2])>>

(* current_extent undefined and a minimum above the desired default in     *)
(* both components: the extent chosen is the minimum.                      *)
C4_Witness ==
    /\ extent # None
    /\ unwrap(capabilities).current_extent = None
    /\ unwrap(capabilities).min_image_extent[1] > WIDTH
    /\ unwrap(capabilities).min_image_extent[2] > HEIGHT
    /\ unwrap(capabilities).max_image_extent[1] > unwrap(capabilities).min_image_extent[1]
    /\ unwrap(extent) = unwrap(capabilities).min_image_extent

----------------------------------------------------------------------------
(* C5 *)

(* C5: the image count lies within [min_image_count, max_image_count] when *)
(* max_image_count is bounded, and is min_image_count + 1 when it is not.  *)
C5_ImageCountWithinBounds ==
    image_count # None =>
        LET c == unwrap(capabilities)
            n == unwrap(image_count)
        IN  /\ c.max_image_count # None =>
                  c.min_image_count <= n /\ n <= unwrap(c.max_image_count)
            /\ c.max_image_count = None => n = c.min_image_count + 1

(* min/max image count 2/4: the count chosen is 3.                         *)
C5_Witness ==
    /\ image_count = Some(3)
    /\ unwrap(capabilities).min_image_count = 2
    /\ unwrap(capabilities).max_image_count = Some(4)

----------------------------------------------------------------------------
(* C6 *)

(* C6: on a non-empty format list choose_swap_surface_format returns a     *)
(* pair of the list: (B8G8R8A8Unorm, SrgbNonLinear) when the list holds    *)
(* it anywhere, and the first pair of the list otherwise.                  *)
C6_FormatFromList ==
    (pc # "choose_swap_surface_format"
        /\ unwrap(capabilities).supported_formats # <<>>) =>
        LET formats == unwrap(capabilities).supported_formats
        IN  /\ surface_format # None
            /\ unwrap(surface_format) \in Range(formats)
            /\ PreferredPair \in Range(formats) => unwrap(surface_format) = PreferredPair
            /\ PreferredPair \notin Range(formats) => unwrap(surface_format) = formats[1]

(* The preferred pair second in the list, and chosen.                      *)
C6_Witness ==
    /\ surface_format = Some(PreferredPair)
    /\ Len(unwrap(capabilities).supported_formats) = 2
    /\ unwrap(capabilities).supported_formats[1] = <<"R8G8B8A8Unorm", "SrgbNonLinear">>
    /\ unwrap(capabilities).supported_formats[2] = PreferredPair

----------------------------------------------------------------------------
(* C7 *)

(* C7: choose_swap_present_mode returns Mailbox when mailbox is offered,   *)
(* otherwise Immediate when immediate is offered, otherwise Fifo.          *)
C7_PresentModePreference ==
    present_mode # None =>
        LET modes == unwrap(capabilities).present_modes
            chosen == unwrap(present_mode)
        IN  /\ modes.mailbox => chosen = "Mailbox"
            /\ (~modes.mailbox /\ modes.immediate) => chosen = "Immediate"
            /\ (~modes.mailbox /\ ~modes.immediate) => chosen = "Fifo"

(* Mailbox, Immediate and Fifo all offered: Mailbox is chosen.             *)
C7_Witness ==
    /\ present_mode = Some("Mailbox")
    /\ unwrap(capabilities).present_modes.mailbox
    /\ unwrap(capabilities).present_modes.immediate
    /\ unwrap(capabilities).present_modes.fifo

----------------------------------------------------------------------------
(* C8 *)

----------------------------------------------------------------------------
(* C9 *)

(* C9 as stated: the failure of the selection tells the case of no device  *)
(* enumerated from the case of devices none of which meets the             *)
(* requirements, so the message of the second case is never reported in    *)
(* the first.                                                              *)
C9_FailureDistinguishesNoDevice ==
    (PickFailed /\ unwrap(panic).msg = "failed to find a suitable GPU!") =>
        devices # <<>>

(* C9 amended: when the selection fails for want of a suitable device, the *)
(* failure reported is "failed to find a suitable GPU!" both when no       *)
(* device was enumerated and when devices were enumerated and none met the *)
(* requirements; in both cases startup has ended.                          *)
C9_OneFailureForBothCases ==
    (PickRan /\ SuitableIndices = {}
        /\ \A k \in 1..Len(devices) : ~QueryFails(devices[k])) =>
        /\ pc = "panicked"
        /\ panic = Some([in |-> "pick_physical_device",
                         msg |-> "failed to find a suitable GPU!"])

(* The selection failed on an empty enumeration.                           *)
C9_Witness == PickFailed /\ devices = <<>>

----------------------------------------------------------------------------
(* C10 *)

(* C10: find_queue_families returns the lowest index of a graphics family  *)
(* as both graphics_family and present_family, and -1 for both when no     *)
(* family supports graphics; is_complete is true exactly when both indices *)
(* are non-negative.                                                       *)
C10_FirstGraphicsFamily ==
    pc = "resolved" =>
        LET G == GraphicsFamilies(queue_families)
        IN  /\ G # {} =>
                  /\ indices.graphics_family = Lowest(G)
                  /\ indices.present_family = Lowest(G)
                  /\ is_complete(indices)
            /\ G = {} =>
                  /\ indices.graphics_family = -1
                  /\ indices.present_family = -1
                  /\ ~is_complete(indices)
            /\ is_complete(indices) <=>
                  (indices.graphics_family >= 0 /\ indices.present_family >= 0)

(* Graphics families at indices 1 and 2 but not 0: index 1 is returned.    *)
C10_Witness ==
    /\ pc = "resolved"
    /\ Len(queue_families) >= 3
    /\ ~queue_families[1].supports_graphics
    /\ queue_families[2].supports_graphics
    /\ queue_families[3].supports_graphics
    /\ indices = [graphics_family |-> 1, present_family |-> 1]

====
